---- MODULE Spec2Model ----
(***************************************************************************)
(* quickgrade (src/src/main.rs): a five-criterion rubric grader.           *)
(*                                                                         *)
(* Numbers.  Grade.val is an Option<f32>.  A score is modelled in fixed    *)
(* point: the integer n stands for the f32 value n / Scale, so 1.0 is      *)
(* Scale and 0.0 is 0.  Option::None is the empty tuple <<>> and Some(v)   *)
(* is the one-element tuple <<v>>.  Sums, clamps and the products by 20    *)
(* are exact in the model; with scores in thirds or quarters no mean times *)
(* 100 lies on a half, so f32's rounding error never decides f32::round.   *)
(*                                                                         *)
(* Text.  A String is a tuple of one-character strings.                    *)
(***************************************************************************)
EXTENDS Integers, Sequences, FiniteSets, TLC

VARIABLES
    g,          \* Grade API: the Grade under test
    gstart,     \* Grade API: the Grade as it was constructed
    gcalls,     \* Grade API: the mutating calls made on g since construction
    gread,      \* Grade API: <<v>> when the last call was get() returning v
    out,        \* the Rubric (from_string's `out`, output's `self`)
    rstart,     \* Rubric API: the Rubric as it was handed in
    score,      \* <<s>> once Rubric::get has returned s (a Fraction)
    report,     \* the String output() returned, as its lines; <<>> before
    contents,   \* from_string's argument
    fgpc,       \* where the calling thread is in from_string, output and main
    bgpc,       \* where the spawned thread is in punc_spell_caps
    input,      \* <<line>> once read_line has filled `input`
    response,   \* <<line>> as read_line left it, kept when `input` is reassigned
    found,      \* classifier alone: <<findings>> the linter returned
    lints,      \* punc_spell_caps's `lints`: the Vec bucket_lints returned
    li,         \* position of the `for lint in lints` loop
    punc,       \* punc_spell_caps's local Grades
    spel,
    caps,
    psc,        \* <<(punc, spel, caps)>> once punc_spell_caps has returned
    calls,      \* the fail() and pass() calls punc_spell_caps has made, in order
    printed     \* what main has written to standard output, as lines

gvars == <<g, gstart, gcalls, gread>>
rvars == <<out, rstart, score, report>>
fgvars == <<contents, fgpc, input, response, printed>>
bgvars == <<bgpc, found, lints, li, punc, spel, caps, psc, calls>>
vars == <<gvars, rvars, fgvars, bgvars>>

\* ---------------------------------------------------------------- bounds
\* Fixed-point resolution of a score: 1.0 is Scale.
Scale == 3
\* Longest sequence of mutating calls on one Grade.
MaxCalls == 3
\* Most findings the linter returns in a run of from_string.
MaxLints == 2
\* Most findings, or classified findings, handed to the classifier or to
\* the fail/pass loop when run on their own.
MaxFindings == 3

\* ----------------------------------------------------------------- Grade
None == <<>>
Some(v) == <<v>>

\* Scores a caller may hand to Grade::new: below 0.0, inside, above 1.0.
Scores == {0 - Scale, -1, 0, 1, Scale \div 2, Scale - 1, Scale, Scale + 1, 2 * Scale}

\* f32::clamp(lo, hi)
Clamp(v, lo, hi) == IF v < lo THEN lo ELSE IF v > hi THEN hi ELSE v

\* Grade::empty
GradeEmpty == [val |-> None]

\* Grade::new: stores v as given
GradeNew(v) == [val |-> Some(v)]

NormalizeNoClamp(gr) == gr
NormalizeResolvesUnset(gr) ==
    [val |-> Some(Clamp(IF gr.val = None THEN 0 ELSE gr.val[1], 0, Scale))]
\* Grade::normalize
GradeNormalize(gr) ==
    IF gr.val = None THEN [val |-> None]
    ELSE [val |-> Some(Clamp(gr.val[1], 0, Scale))]

\* Grade::get
GradeGet(gr) == IF gr.val = None THEN 0 ELSE gr.val[1]

FailOverwrites(gr) == [val |-> Some(0)]
PassOverwrites(gr) == [val |-> Some(Scale)]
\* Grade::fail
GradeFail(gr) == IF gr.val # None THEN [val |-> gr.val] ELSE [val |-> Some(0)]

\* Grade::pass
GradePass(gr) == IF gr.val # None THEN [val |-> gr.val] ELSE [val |-> Some(Scale)]

\* ---------------------------------------------------------------- Rubric
\* 5.0 in Rubric::get, 20.0 and 100.0 in Rubric::output
NumCriteria == 5
CriterionWeight == 20
Percent == 100

\* A quotient of two f32 values that is not a multiple of 1 / Scale.
Fraction(n, d) == [num |-> n, den |-> d]

\* f32::round of n / d (d > 0): to the nearest integer, halves away from zero
Round(n, d) ==
    IF n >= 0 THEN (2 * n + d) \div (2 * d)
    ELSE 0 - ((2 * (0 - n) + d) \div (2 * d))

\* Rubric::new
RubricNew ==
    [link |-> GradeEmpty, caps |-> GradeEmpty, punc |-> GradeEmpty,
     spel |-> GradeEmpty, ques |-> GradeEmpty]

NormalizeSkipsQues(r) ==
    [link |-> GradeNormalize(r.link), caps |-> GradeNormalize(r.caps),
     punc |-> GradeNormalize(r.punc), spel |-> GradeNormalize(r.spel),
     ques |-> r.ques]
\* Rubric::normalize
RubricNormalize(r) ==
    [link |-> GradeNormalize(r.link), caps |-> GradeNormalize(r.caps),
     punc |-> GradeNormalize(r.punc), spel |-> GradeNormalize(r.spel),
     ques |-> GradeNormalize(r.ques)]

\* Rubric::get, the value returned; self is left as RubricNormalize(r)
RubricGet(r) ==
    LET n == RubricNormalize(r)
    IN  Fraction(GradeGet(n.link) + GradeGet(n.caps) + GradeGet(n.punc)
                    + GradeGet(n.spel) + GradeGet(n.ques),
                 NumCriteria * Scale)

\* One line of the report: the number format!("{}") prints, as a score in
\* units of 1 / Scale, and the text that follows it up to the newline.
Line(n, t) == [num |-> n, text |-> t]

Separator == [text |-> "=== === === === === === === === ==="]

OutputSwapsSpelPunc(r) ==
    LET n == RubricNormalize(r)
        s == RubricGet(r)
    IN  << Line(GradeGet(n.link) * CriterionWeight,
                "%(20%): Contains a link to a youtube video"),
           Line(GradeGet(n.punc) * CriterionWeight,
                "%(20%): No spelling mistakes"),
           Line(GradeGet(n.spel) * CriterionWeight,
                "%(20%): No punctuation mistakes"),
           Line(GradeGet(n.caps) * CriterionWeight,
                "%(20%): No capitalization mistakes"),
           Line(GradeGet(n.ques) * CriterionWeight,
                "%(20%): Answered all the questions in complete sentences"),
           Separator,
           Line(Round(s.num * Percent, s.den) * Scale, "%(100%): Final score") >>
\* Rubric::output, the String returned; self is left as RubricNormalize(r)
RubricOutput(r) ==
    LET n == RubricNormalize(r)
        s == RubricGet(r)
    IN  << Line(GradeGet(n.link) * CriterionWeight,
                "%(20%): Contains a link to a youtube video"),
           Line(GradeGet(n.spel) * CriterionWeight,
                "%(20%): No spelling mistakes"),
           Line(GradeGet(n.punc) * CriterionWeight,
                "%(20%): No punctuation mistakes"),
           Line(GradeGet(n.caps) * CriterionWeight,
                "%(20%): No capitalization mistakes"),
           Line(GradeGet(n.ques) * CriterionWeight,
                "%(20%): Answered all the questions in complete sentences"),
           Separator,
           Line(Round(s.num * Percent, s.den) * Scale, "%(100%): Final score") >>

\* --------------------------------------------------------------- strings
\* "check my video at youtu.be/abc"
TextYoutuBe ==
    <<"c", "h", "e", "c", "k", " ", "m", "y", " ", "v", "i", "d", "e",
      "o", " ", "a", "t", " ", "y", "o", "u", "t", "u", ".", "b", "e", "/",
      "a", "b", "c">>

\* "https://youtube.com/watch?v=x"
TextYoutube ==
    <<"h", "t", "t", "p", "s", ":", "/", "/", "y", "o", "u", "t", "u",
      "b", "e", ".", "c", "o", "m", "/", "w", "a", "t", "c", "h", "?", "v",
      "=", "x">>

\* "tiktok.com/@a"
TextTiktok ==
    <<"t", "i", "k", "t", "o", "k", ".", "c", "o", "m", "/", "@", "a">>

\* "see youtube.com": a host name with no slash after it
TextNoSlash ==
    <<"s", "e", "e", " ", "y", "o", "u", "t", "u", "b", "e", ".", "c",
      "o", "m">>

\* "no video"
TextPlain == <<"n", "o", " ", "v", "i", "d", "e", "o">>

\* "youtubexcom/": another character where the host name has its dot
TextOtherChar ==
    <<"y", "o", "u", "t", "u", "b", "e", "x", "c", "o", "m", "/">>

\* "youtu\nbe/": a line break where the host name has its dot
TextNewline == <<"y", "o", "u", "t", "u", "\n", "b", "e", "/">>

\* The texts handed to from_string; <<>> is main's literal "".
Texts ==
    {<<>>, TextYoutuBe, TextYoutube, TextTiktok, TextNoSlash, TextPlain,
     TextOtherChar, TextNewline}

\* The lines read_line may leave in `input`: the response with its line
\* break, or nothing at all at end of input.
Responses ==
    {<<"y", "\n">>, <<"Y", "\n">>, <<"n", "\n">>, <<"\n">>, <<>>,
     <<" ", "y", "\n">>, <<"Y", "e", "s", "\n">>, <<"n", "o", "\n">>,
     <<" ", " ", "\n">>, <<"n", "y", "\n">>}

\* The three alternatives of the regex of contains_link, as written in its
\* source: (youtube.com)|(youtu.be)|(tiktok.com)
RegexHosts ==
    {<<"y", "o", "u", "t", "u", "b", "e", ".", "c", "o", "m">>,
     <<"y", "o", "u", "t", "u", ".", "b", "e">>,
     <<"t", "i", "k", "t", "o", "k", ".", "c", "o", "m">>}

\* One regex atom against one character: an unescaped "." is the regex
\* wildcard, which matches every character but a line break.
AtomMatches(atom, c) == IF atom = "." THEN c # "\n" ELSE atom = c

\* The regex ((youtube.com)|(youtu.be)|(tiktok.com))\/ matched at position i
RegexMatchesAt(text, i) ==
    \E h \in RegexHosts :
        /\ i + Len(h) <= Len(text)
        /\ \A j \in 1..Len(h) : AtomMatches(h[j], text[i + j - 1])
        /\ text[i + Len(h)] = "/"

ContainsLinkAtStart(text) == text # <<>> /\ RegexMatchesAt(text, 1)
\* contains_link: Regex::is_match, an unanchored search
contains_link(text) == \E i \in 1..Len(text) : RegexMatchesAt(text, i)

Whitespace == {" ", "\n", "\t", "\r"}

\* str::trim: without its leading and trailing whitespace
RECURSIVE TrimStart(_)
TrimStart(str) ==
    IF str # <<>> /\ Head(str) \in Whitespace THEN TrimStart(Tail(str)) ELSE str

RECURSIVE TrimEnd(_)
TrimEnd(str) ==
    IF str # <<>> /\ str[Len(str)] \in Whitespace
    THEN TrimEnd(SubSeq(str, 1, Len(str) - 1))
    ELSE str

Trim(str) == TrimEnd(TrimStart(str))

\* char::to_lowercase on the letters the responses use
LowerChar(c) ==
    CASE c = "Y" -> "y"
      [] c = "N" -> "n"
      [] c = "E" -> "e"
      [] c = "S" -> "s"
      [] c = "O" -> "o"
      [] OTHER -> c

\* str::to_lowercase
ToLowercase(str) == [i \in 1..Len(str) |-> LowerChar(str[i])]

NoTrimNormalized(line) == ToLowercase(line)
\* lines 200-201: input.trim().to_string(), then input.to_lowercase()
Normalized(line) == ToLowercase(Trim(line))

\* line 202: input.chars().nth(0).unwrap_or('y') == 'y'
AnsweredYes(line) ==
    LET t == Normalized(line)
    IN  (IF t = <<>> THEN "y" ELSE t[1]) = "y"

\* ------------------------------------------------------------ classifier
\* LintKind values the match of bucket_lints names
TrackedKinds ==
    {"BoundaryError", "Capitalization", "Eggcorn", "Malapropism",
     "Punctuation", "Spelling", "Typo"}

\* LintKind values that fall to the wildcard arm
UntrackedKinds == {"Style", "WordChoice", "Miscellaneous"}

LintKinds == TrackedKinds \cup UntrackedKinds

BucketOfPushesOther(kind) ==
    CASE kind = "BoundaryError" -> <<"Spelling">>
      [] kind = "Capitalization" -> <<"Capitalization">>
      [] kind = "Eggcorn" -> <<"Spelling">>
      [] kind = "Malapropism" -> <<"Spelling">>
      [] kind = "Punctuation" -> <<"Punctuation">>
      [] kind = "Spelling" -> <<"Spelling">>
      [] kind = "Typo" -> <<"Spelling">>
      [] OTHER -> <<"Other">>
\* The match of bucket_lints on one finding's lint_kind: the LintCategory
\* pushed, as a one-element tuple, or <<>> for `continue`.
BucketOf(kind) ==
    CASE kind = "BoundaryError" -> <<"Spelling">>
      [] kind = "Capitalization" -> <<"Capitalization">>
      [] kind = "Eggcorn" -> <<"Spelling">>
      [] kind = "Malapropism" -> <<"Spelling">>
      [] kind = "Punctuation" -> <<"Punctuation">>
      [] kind = "Spelling" -> <<"Spelling">>
      [] kind = "Typo" -> <<"Spelling">>
      [] OTHER -> <<>>

\* The loop of bucket_lints over the findings the linter returned, each
\* finding given by its lint_kind (line 120 keeps nothing else of it).
RECURSIVE BucketLints(_)
BucketLints(errors) ==
    IF errors = <<>> THEN <<>>
    ELSE BucketOf(Head(errors)) \o BucketLints(Tail(errors))

\* Sequences over S of length at most n
SeqsUpTo(S, n) == UNION {[1..k -> S] : k \in 0..n}

LintCategories == {"Punctuation", "Spelling", "Capitalization", "Other"}

\* ------------------------------------------- the Grade API as a machine
\* The variables of the Grade API machine when another machine runs.
GradeUnused == g = GradeEmpty /\ gstart = GradeEmpty /\ gcalls = <<>> /\ gread = None

\* The variables of the Rubric when the Grade API machine runs alone.
RubricUnused == out = RubricNew /\ rstart = RubricNew /\ score = None /\ report = <<>>

\* The calling thread when a function is run on its own.
FgUnused ==
    contents = <<>> /\ fgpc = "parked" /\ input = None /\ response = None /\ printed = <<>>

\* The spawned thread before thread::spawn.
BgUnspawned ==
    /\ bgpc = "unspawned"
    /\ found = None
    /\ lints = <<>>
    /\ li = 1
    /\ punc = GradeEmpty
    /\ spel = GradeEmpty
    /\ caps = GradeEmpty
    /\ psc = None
    /\ calls = <<>>

GradeInit ==
    /\ g \in {GradeEmpty} \cup {GradeNew(v) : v \in Scores}
    /\ gstart = g
    /\ gcalls = <<>>
    /\ gread = None
    /\ RubricUnused /\ FgUnused /\ BgUnspawned

CallFail ==
    /\ Len(gcalls) < MaxCalls
    /\ g' = GradeFail(g)
    /\ gcalls' = Append(gcalls, "fail")
    /\ gread' = None
    /\ UNCHANGED <<gstart, rvars, fgvars, bgvars>>

CallPass ==
    /\ Len(gcalls) < MaxCalls
    /\ g' = GradePass(g)
    /\ gcalls' = Append(gcalls, "pass")
    /\ gread' = None
    /\ UNCHANGED <<gstart, rvars, fgvars, bgvars>>

CallNormalize ==
    /\ Len(gcalls) < MaxCalls
    /\ g' = GradeNormalize(g)
    /\ gcalls' = Append(gcalls, "normalize")
    /\ gread' = None
    /\ UNCHANGED <<gstart, rvars, fgvars, bgvars>>

CallGet ==
    /\ gread' = Some(GradeGet(g))
    /\ UNCHANGED <<g, gstart, gcalls, rvars, fgvars, bgvars>>

GradeNext == CallFail \/ CallPass \/ CallNormalize \/ CallGet

SpecGrade == GradeInit /\ [][GradeNext]_vars

\* The calls made so far are fail() and pass() only, and there is one.
OnlyFailPass ==
    /\ gcalls # <<>>
    /\ \A i \in 1..Len(gcalls) : gcalls[i] \in {"fail", "pass"}

\* C1: on a Grade that starts empty, after any sequence of fail() and pass()
\* calls the value read is the one the first call resolved: 1.0 when the
\* first call was pass(), 0.0 when it was fail(); no later call changes it.
C1_FirstWriteWins ==
    (gstart = GradeEmpty /\ OnlyFailPass /\ gread # None)
        => gread = Some(IF gcalls[1] = "pass" THEN Scale ELSE 0)

\* C1 witness: pass() then fail() then a read of 1.0.
C1_Witness ==
    /\ gstart = GradeEmpty
    /\ Len(gcalls) >= 2 /\ gcalls[1] = "pass" /\ gcalls[2] = "fail"
    /\ OnlyFailPass
    /\ gread = Some(Scale)

\* C7 as claimed: a Grade built by Grade::new(v) reads as clamp(v, 0, 1).
C7_Original ==
    (gstart.val # None /\ gread # None)
        => gread = Some(Clamp(gstart.val[1], 0, Scale))

\* C7 amended: a Grade built by Grade::new(v) reads as clamp(v, 0, 1) once
\* normalize() has been called on it; get() itself does not clamp.
C7_ClampedAfterNormalize ==
    (/\ gstart.val # None
     /\ gread # None
     /\ \E i \in 1..Len(gcalls) : gcalls[i] = "normalize")
        => gread = Some(Clamp(gstart.val[1], 0, Scale))

\* C7 witness: new(v) with v > 1.0, normalize(), then a read of 1.0.
C7_Witness ==
    /\ gstart = GradeNew(Scale + 1)
    /\ gcalls = <<"normalize">>
    /\ gread = Some(Scale)

\* ------------------------------------------ the Rubric API as a machine
\* Scores a Grade of a Rubric may hold when get() or output() is called.
RubricScores == {-1, 0, 1, Scale, Scale + 1}

RubricGrades == {GradeEmpty} \cup {GradeNew(v) : v \in RubricScores}

RubricInit ==
    /\ out \in [link : RubricGrades, caps : RubricGrades, punc : RubricGrades,
                spel : RubricGrades, ques : RubricGrades]
    /\ rstart = out
    /\ score = None
    /\ report = <<>>
    /\ contents = <<>> /\ fgpc = "output" /\ input = None /\ response = None
    /\ printed = <<>>
    /\ GradeUnused /\ BgUnspawned

\* Rubric::normalize called on its own
CallRubricNormalize ==
    /\ fgpc = "output"
    /\ score = None
    /\ out' = RubricNormalize(out)
    /\ UNCHANGED <<rstart, score, report, gvars, fgvars, bgvars>>

\* Rubric::get called on its own
CallRubricGet ==
    /\ fgpc = "output"
    /\ score = None
    /\ score' = Some(RubricGet(out))
    /\ out' = RubricNormalize(out)
    /\ UNCHANGED <<rstart, report, gvars, fgvars, bgvars>>

\* Rubric::output (lines 213-239), called by main on from_string's result
FgOutput ==
    /\ fgpc = "output"
    /\ score' = Some(RubricGet(out))
    /\ out' = RubricNormalize(out)
    /\ report' = RubricOutput(out)
    /\ fgpc' = "print"
    /\ UNCHANGED <<rstart, contents, input, response, printed, gvars, bgvars>>

RubricNext == CallRubricNormalize \/ CallRubricGet \/ FgOutput

SpecRubric == RubricInit /\ [][RubricNext]_vars

\* The contribution the claims give a Grade: 0.0 when unset, else clamped.
ClampedValue(gr) == Clamp(IF gr.val = None THEN 0 ELSE gr.val[1], 0, Scale)

ClampedTotal(r) ==
    ClampedValue(r.link) + ClampedValue(r.caps) + ClampedValue(r.punc)
        + ClampedValue(r.spel) + ClampedValue(r.ques)

\* Four Grades at 1.0 and one at 0.0
FourOfFive(r) ==
    /\ \A f \in DOMAIN r : r[f] \in {GradeNew(0), GradeNew(Scale)}
    /\ Cardinality({f \in DOMAIN r : r[f] = GradeNew(0)}) = 1

\* C8: whatever the five Grades hold (unset, in range, below 0.0, above
\* 1.0), Rubric::get returns the sum of the five clamped values, an unset
\* Grade counting 0.0, divided by five; it lies in [0, 1]; and Grades
\* [1.0, 1.0, 1.0, 1.0, 0.0] give the final line 80%.
C8_MeanOfClamped ==
    /\ score # None =>
         /\ score[1].num = ClampedTotal(rstart)
         /\ score[1].den = 5 * Scale
         /\ 0 <= score[1].num /\ score[1].num <= score[1].den
    /\ (FourOfFive(rstart) /\ report # <<>>) =>
         report[7] = Line(80 * Scale, "%(100%): Final score")

\* C8 witness: get() on a Rubric with a Grade above 1.0, one below 0.0 and
\* one unset returns (1.0 + 0.0 + 0.0 + 1.0 + 0.0) / 5.
C8_Witness ==
    /\ rstart.link = GradeNew(Scale + 1)
    /\ rstart.punc = GradeNew(-1)
    /\ rstart.caps = GradeEmpty
    /\ rstart.spel = GradeNew(Scale)
    /\ rstart.ques = GradeNew(0)
    /\ score = Some(Fraction(2 * Scale, 5 * Scale))

\* The Grade each criterion line reports, by the line's text
CriterionLines ==
    << [field |-> "link", text |-> "%(20%): Contains a link to a youtube video"],
       [field |-> "spel", text |-> "%(20%): No spelling mistakes"],
       [field |-> "punc", text |-> "%(20%): No punctuation mistakes"],
       [field |-> "caps", text |-> "%(20%): No capitalization mistakes"],
       [field |-> "ques",
        text |-> "%(20%): Answered all the questions in complete sentences"] >>

\* The report has five criterion lines, each its own Grade's value times 20
\* and within 0..20, a separator, and a final line with the overall score
\* times 100 rounded to a whole number within 0..100.
WellFormedReport ==
    /\ Len(report) = 7
    /\ \A i \in 1..5 :
         /\ report[i].text = CriterionLines[i].text
         /\ report[i].num = GradeGet(out[CriterionLines[i].field]) * 20
         /\ GradeGet(out[CriterionLines[i].field])
              = ClampedValue(rstart[CriterionLines[i].field])
         /\ 0 <= report[i].num /\ report[i].num <= 20 * Scale
    /\ report[6] = Separator
    /\ report[7].text = "%(100%): Final score"
    /\ \E pct \in 0..100 :
         /\ report[7].num = pct * Scale
         /\ 2 * pct * score[1].den - 2 * 100 * score[1].num <= score[1].den
         /\ 2 * 100 * score[1].num - 2 * pct * score[1].den <= score[1].den

\* C10: every report output() returns is well formed.
C10_ReportShape == report # <<>> => WellFormedReport

\* C10 witness: a report whose first three lines read 20, 6.67 and 0 (link
\* above 1.0, spelling at 1/3, punctuation below 0.0) and whose final line
\* is a rounded 27% (a mean of 4/15).
C10_Witness ==
    /\ Scale = 3
    /\ rstart.link = GradeNew(Scale + 1)
    /\ rstart.spel = GradeNew(1)
    /\ rstart.punc = GradeNew(-1)
    /\ rstart.caps = GradeEmpty
    /\ rstart.ques = GradeNew(0)
    /\ report # <<>>
    /\ report[1].num = 20 * Scale
    /\ report[2].num = 20
    /\ report[3].num = 0
    /\ report[7].num = 27 * Scale

\* ------------------------------------------------- punc_spell_caps (164-181)
\* The process ends when the calling thread panics; the spawned thread
\* takes no step after that.
ProcessAlive == fgpc # "panicked"

\* line 165, bucket_lints(contents): the linter returns some findings and
\* the classifier buckets them; lines 166-168: three empty Grades
BgLint ==
    /\ ProcessAlive
    /\ bgpc = "lint"
    /\ \E errors \in SeqsUpTo(LintKinds, MaxLints) : lints' = BucketLints(errors)
    /\ li' = 1
    /\ punc' = GradeEmpty /\ spel' = GradeEmpty /\ caps' = GradeEmpty
    /\ bgpc' = "loop"
    /\ UNCHANGED <<found, psc, calls, gvars, rvars, fgvars>>

\* the linter panics inside bucket_lints: the thread ends without a result
BgLintPanic ==
    /\ ProcessAlive
    /\ bgpc = "lint"
    /\ bgpc' = "panicked"
    /\ UNCHANGED <<found, lints, li, punc, spel, caps, psc, calls, gvars, rvars,
                   fgvars>>

\* lines 169-176: one turn of `for lint in lints`
BgLoop ==
    /\ ProcessAlive
    /\ bgpc = "loop"
    /\ li <= Len(lints)
    /\ \/ lints[li] = "Punctuation"
          /\ punc' = GradeFail(punc) /\ UNCHANGED <<spel, caps>>
          /\ calls' = Append(calls, <<"punc", "fail">>)
       \/ lints[li] = "Spelling"
          /\ spel' = GradeFail(spel) /\ UNCHANGED <<punc, caps>>
          /\ calls' = Append(calls, <<"spel", "fail">>)
       \/ lints[li] = "Capitalization"
          /\ caps' = GradeFail(caps) /\ UNCHANGED <<punc, spel>>
          /\ calls' = Append(calls, <<"caps", "fail">>)
       \/ lints[li] = "Other"
          /\ UNCHANGED <<punc, spel, caps, calls>>
    /\ li' = li + 1
    /\ UNCHANGED <<bgpc, found, lints, psc, gvars, rvars, fgvars>>

BgPassEarly ==
    /\ ProcessAlive
    /\ bgpc = "loop"
    /\ punc' = GradePass(punc)
    /\ spel' = GradePass(spel)
    /\ caps' = GradePass(caps)
    /\ calls' = calls \o << <<"punc", "pass">>, <<"spel", "pass">>, <<"caps", "pass">> >>
    /\ bgpc' = IF li > Len(lints) THEN "return" ELSE "loop"
    /\ UNCHANGED <<found, lints, li, psc, gvars, rvars, fgvars>>
\* the loop is over; lines 177-179: punc.pass(); spel.pass(); caps.pass()
BgPass ==
    /\ ProcessAlive
    /\ bgpc = "loop"
    /\ li > Len(lints)
    /\ punc' = GradePass(punc)
    /\ spel' = GradePass(spel)
    /\ caps' = GradePass(caps)
    /\ calls' = calls \o << <<"punc", "pass">>, <<"spel", "pass">>, <<"caps", "pass">> >>
    /\ bgpc' = "return"
    /\ UNCHANGED <<found, lints, li, psc, gvars, rvars, fgvars>>

BgReturnNeverEnds ==
    /\ ProcessAlive
    /\ bgpc = "return"
    /\ psc = None
    /\ psc' = Some(<<GradeGet(punc), GradeGet(spel), GradeGet(caps)>>)
    /\ UNCHANGED <<bgpc, found, lints, li, punc, spel, caps, calls, gvars, rvars, fgvars>>
BgReturnWritesRubric ==
    /\ ProcessAlive
    /\ bgpc = "return"
    /\ psc' = Some(<<GradeGet(punc), GradeGet(spel), GradeGet(caps)>>)
    /\ out' = [out EXCEPT !.punc = punc, !.spel = spel, !.caps = caps]
    /\ bgpc' = "finished"
    /\ UNCHANGED <<found, lints, li, punc, spel, caps, calls, gvars, rstart, score,
                   report, fgvars>>
\* line 180: return (punc.get(), spel.get(), caps.get()); the thread ends
BgReturn ==
    /\ ProcessAlive
    /\ bgpc = "return"
    /\ psc' = Some(<<GradeGet(punc), GradeGet(spel), GradeGet(caps)>>)
    /\ bgpc' = "finished"
    /\ UNCHANGED <<found, lints, li, punc, spel, caps, calls, gvars, rvars, fgvars>>

\* ----------------------------------------------------- from_string (186-211)
\* lines 186-188: out = Rubric::new(); thread::spawn
FgSpawn ==
    /\ fgpc = "spawn"
    /\ out' = RubricNew
    /\ bgpc' = "lint"
    /\ fgpc' = "link"
    /\ UNCHANGED <<rstart, score, report, contents, input, response, printed,
                   found, lints, li, punc, spel, caps, psc, calls, gvars>>

FgLinkAfterThread ==
    /\ fgpc = "link"
    /\ bgpc = "finished"
    /\ out' = [out EXCEPT !.link =
                 IF contains_link(contents) THEN GradeNew(Scale) ELSE GradeNew(0)]
    /\ fgpc' = "prompt"
    /\ UNCHANGED <<rstart, score, report, contents, input, response, printed, gvars,
                   bgvars>>
\* lines 189-193: out.link from contains_link
FgLink ==
    /\ fgpc = "link"
    /\ out' = [out EXCEPT !.link =
                 IF contains_link(contents) THEN GradeNew(Scale) ELSE GradeNew(0)]
    /\ fgpc' = "prompt"
    /\ UNCHANGED <<rstart, score, report, contents, input, response, printed, gvars,
                   bgvars>>

\* lines 194-195: the text and the question are printed
FgPrompt ==
    /\ fgpc = "prompt"
    /\ printed' = printed \o <<contents, "Complete sentences and all questions answered?">>
    /\ fgpc' = "read"
    /\ UNCHANGED <<contents, input, response, gvars, rvars, bgvars>>

\* lines 196-199: read_line fills `input`
FgRead ==
    /\ fgpc = "read"
    /\ \E line \in Responses : input' = Some(line) /\ response' = Some(line)
    /\ fgpc' = "ques"
    /\ UNCHANGED <<contents, printed, gvars, rvars, bgvars>>

FgReadFailDefaults ==
    /\ fgpc = "read"
    /\ input' = Some(<<>>)
    /\ fgpc' = "ques"
    /\ UNCHANGED <<contents, response, printed, gvars, rvars, bgvars>>
\* lines 197-199: read_line fails and expect("failed to read input") panics
FgReadFail ==
    /\ fgpc = "read"
    /\ fgpc' = "panicked"
    /\ UNCHANGED <<contents, input, response, printed, gvars, rvars, bgvars>>

\* lines 200-206: out.ques from the first character of the response
FgQues ==
    /\ fgpc = "ques"
    /\ \/ AnsweredYes(input[1]) /\ out' = [out EXCEPT !.ques = GradePass(out.ques)]
       \/ ~AnsweredYes(input[1]) /\ out' = [out EXCEPT !.ques = GradeFail(out.ques)]
    /\ input' = Some(Normalized(input[1]))
    /\ fgpc' = "join"
    /\ UNCHANGED <<rstart, score, report, contents, response, printed, gvars, bgvars>>

\* line 207: handle.join() returns the thread's result
FgJoin ==
    /\ fgpc = "join"
    /\ bgpc = "finished"
    /\ fgpc' = "copy"
    /\ UNCHANGED <<contents, input, response, printed, gvars, rvars, bgvars>>

\* line 207: the thread panicked and expect("failed to lint") panics
FgJoinFail ==
    /\ fgpc = "join"
    /\ bgpc = "panicked"
    /\ fgpc' = "panicked"
    /\ UNCHANGED <<contents, input, response, printed, gvars, rvars, bgvars>>

FgCopyForgetsCaps ==
    /\ fgpc = "copy"
    /\ out' = [out EXCEPT !.punc = GradeNew(psc[1][1]),
                          !.spel = GradeNew(psc[1][2])]
    /\ fgpc' = "output"
    /\ UNCHANGED <<rstart, score, report, contents, input, response, printed, gvars,
                   bgvars>>
FgCopySwapsSpelCaps ==
    /\ fgpc = "copy"
    /\ out' = [out EXCEPT !.punc = GradeNew(psc[1][1]),
                          !.spel = GradeNew(psc[1][3]),
                          !.caps = GradeNew(psc[1][2])]
    /\ fgpc' = "output"
    /\ UNCHANGED <<rstart, score, report, contents, input, response, printed, gvars,
                   bgvars>>
\* lines 208-211: the three values become Grades of `out`, which is returned
FgCopy ==
    /\ fgpc = "copy"
    /\ out' = [out EXCEPT !.punc = GradeNew(psc[1][1]),
                          !.spel = GradeNew(psc[1][2]),
                          !.caps = GradeNew(psc[1][3])]
    /\ fgpc' = "output"
    /\ UNCHANGED <<rstart, score, report, contents, input, response, printed, gvars,
                   bgvars>>

\* line 242: main prints the report
FgPrint ==
    /\ fgpc = "print"
    /\ printed' = printed \o report
    /\ fgpc' = "done"
    /\ UNCHANGED <<contents, input, response, gvars, rvars, bgvars>>

\* main: Rubric::from_string(contents).output(), printed
Init ==
    /\ contents \in Texts
    /\ fgpc = "spawn"
    /\ input = None
    /\ response = None
    /\ printed = <<>>
    /\ GradeUnused /\ RubricUnused /\ BgUnspawned

Next ==
    \/ FgSpawn \/ FgLink \/ FgPrompt \/ FgRead \/ FgReadFail \/ FgQues
    \/ FgJoin \/ FgJoinFail \/ FgCopy \/ FgOutput \/ FgPrint
    \/ BgLint \/ BgLintPanic \/ BgLoop \/ BgPass \/ BgReturn

Spec == Init /\ [][Next]_vars

\* The steps of the calling thread and those of the spawned thread
FgNext ==
    \/ FgSpawn \/ FgLink \/ FgPrompt \/ FgRead \/ FgReadFail \/ FgQues
    \/ FgJoin \/ FgJoinFail \/ FgCopy \/ FgOutput \/ FgPrint

BgNext == BgLint \/ BgLintPanic \/ BgLoop \/ BgPass \/ BgReturn

\* Both threads are scheduled: neither is left forever with a step to take.
FairSpec == Spec /\ WF_vars(FgNext) /\ WF_vars(BgNext)

\* ------------------------------------- the fail/pass loop run on its own
\* punc_spell_caps from line 166 on, for any Vec<LintCategory>
ProtocolInit ==
    /\ lints \in SeqsUpTo(LintCategories, MaxFindings)
    /\ bgpc = "loop"
    /\ found = None
    /\ li = 1
    /\ punc = GradeEmpty /\ spel = GradeEmpty /\ caps = GradeEmpty
    /\ psc = None
    /\ calls = <<>>
    /\ GradeUnused /\ RubricUnused /\ FgUnused

ProtocolNext == BgLoop \/ BgPass \/ BgReturn

SpecProtocol == ProtocolInit /\ [][ProtocolNext]_vars

\* -------------------------------------------- punc_spell_caps run on its own
\* the linter has returned the findings `found`
ClassifyInit ==
    /\ found \in {Some(errors) : errors \in SeqsUpTo(LintKinds, MaxFindings)}
    /\ bgpc = "lint"
    /\ lints = <<>>
    /\ li = 1
    /\ punc = GradeEmpty /\ spel = GradeEmpty /\ caps = GradeEmpty
    /\ psc = None
    /\ calls = <<>>
    /\ GradeUnused /\ RubricUnused /\ FgUnused

\* lines 118-132 and 165-168: the findings are bucketed
Classify ==
    /\ bgpc = "lint"
    /\ found # None
    /\ lints' = BucketLints(found[1])
    /\ li' = 1
    /\ punc' = GradeEmpty /\ spel' = GradeEmpty /\ caps' = GradeEmpty
    /\ bgpc' = "loop"
    /\ UNCHANGED <<found, psc, calls, gvars, rvars, fgvars>>

ClassifyNext == Classify \/ BgLoop \/ BgPass \/ BgReturn

SpecClassify == ClassifyInit /\ [][ClassifyNext]_vars

\* ------------------------------------------------------------------ C2
\* found_violation accumulated over the sequence for one category
RECURSIVE FoundViolation(_, _, _)
FoundViolation(seq, cat, acc) ==
    IF seq = <<>> THEN acc
    ELSE FoundViolation(Tail(seq), cat, acc \/ Head(seq) = cat)

\* the Grade set once at the end from found_violation, then read
SetOnce(violation) == IF violation THEN 0 ELSE Scale

\* C2: after the fail/pass loop over any sequence of classified findings,
\* each of punctuation, spelling and capitalization is 0.0 exactly when the
\* sequence holds a finding of its category and 1.0 otherwise, which is the
\* value a found_violation boolean accumulated over the sequence gives.
C2_FailIffFinding ==
    bgpc = "finished" =>
        /\ psc # None
        /\ \A c \in 1..3 :
             LET cat == <<"Punctuation", "Spelling", "Capitalization">>[c]
             IN  /\ psc[1][c] = 0 <=> (\E i \in 1..Len(lints) : lints[i] = cat)
                 /\ psc[1][c] = Scale <=> ~(\E i \in 1..Len(lints) : lints[i] = cat)
                 /\ psc[1][c] = SetOnce(FoundViolation(lints, cat, FALSE))

\* C2 witness: Other, Spelling, Spelling resolves spelling to 0.0 and the
\* other two to 1.0.
C2_Witness ==
    /\ bgpc = "finished"
    /\ lints = <<"Other", "Spelling", "Spelling">>
    /\ psc = Some(<<Scale, 0, Scale>>)

\* ------------------------------------------------------------------ C4
SpellingKinds == {"BoundaryError", "Eggcorn", "Malapropism", "Spelling", "Typo"}

IsTracked(kind) == kind \in SpellingKinds \cup {"Punctuation", "Capitalization"}

\* The mapping as the claim gives it, for a tracked kind
CategoryOf(kind) ==
    IF kind \in SpellingKinds THEN "Spelling"
    ELSE IF kind = "Punctuation" THEN "Punctuation"
    ELSE "Capitalization"

\* C4: the buckets are the tracked findings' categories under the fixed
\* mapping, one bucket per tracked finding and in the findings' order; the
\* other kinds leave no bucket, and the three Grades come out as the tracked
\* findings alone decide.
C4_FixedMapping ==
    /\ (found # None /\ bgpc # "lint") =>
         LET tracked == SelectSeq(found[1], IsTracked)
         IN  /\ Len(lints) = Len(tracked)
             /\ Len(lints) = Cardinality({i \in 1..Len(found[1]) : IsTracked(found[1][i])})
             /\ \A i \in 1..Len(lints) : lints[i] = CategoryOf(tracked[i])
    /\ (found # None /\ bgpc = "finished") =>
         /\ psc[1][1] = 0 <=> (\E i \in 1..Len(found[1]) : found[1][i] = "Punctuation")
         /\ psc[1][2] = 0 <=> (\E i \in 1..Len(found[1]) : found[1][i] \in SpellingKinds)
         /\ psc[1][3] = 0 <=> (\E i \in 1..Len(found[1]) : found[1][i] = "Capitalization")
         /\ \A c \in 1..3 : psc[1][c] \in {0, Scale}

\* C4 witness: typo, style, punctuation is bucketed as Spelling,
\* Punctuation and fails those two Grades only.
C4_Witness ==
    /\ found = Some(<<"Typo", "Style", "Punctuation">>)
    /\ lints = <<"Spelling", "Punctuation">>
    /\ psc = Some(<<0, 0, Scale>>)

\* ------------------------------------------------- claims about a run
\* The recognized video-hosting patterns, as text
RecognizedPatterns ==
    {<<"y", "o", "u", "t", "u", "b", "e", ".", "c", "o", "m", "/">>,
     <<"y", "o", "u", "t", "u", ".", "b", "e", "/">>,
     <<"t", "i", "k", "t", "o", "k", ".", "c", "o", "m", "/">>}

\* The text contains one of the recognized patterns, character for character
HasRecognizedLink(text) ==
    \E pat \in RecognizedPatterns : \E i \in 1..Len(text) :
        /\ i + Len(pat) - 1 <= Len(text)
        /\ \A j \in 1..Len(pat) : text[i + j - 1] = pat[j]

LinkResolved == fgpc \notin {"parked", "spawn", "link"}

QuesResolved == fgpc \in {"join", "copy", "output", "print", "done"}

Reported == fgpc \in {"print", "done"}

\* C6 as claimed: link is 1.0 when the text contains youtube.com/, youtu.be/
\* or tiktok.com/, and 0.0 for every text that contains none of them.
C6_Original ==
    LinkResolved =>
        out.link = (IF HasRecognizedLink(contents) THEN GradeNew(Scale) ELSE GradeNew(0))

\* The response as the reviewer typed it: the line without its line break
TypedResponse(line) ==
    IF line # <<>> /\ line[Len(line)] = "\n" THEN SubSeq(line, 1, Len(line) - 1)
    ELSE line

\* C5 as claimed: a response beginning with y or Y passes, an empty
\* response passes, every other response fails.
C5_Original ==
    (QuesResolved /\ response # None) =>
        LET typed == TypedResponse(response[1])
        IN  out.ques = (IF typed = <<>> \/ typed[1] \in {"y", "Y"}
                        THEN GradeNew(Scale) ELSE GradeNew(0))

\* What the response's first character other than whitespace decides:
\* passing when it is y or Y or when there is none, failing otherwise
PassingResponse(line) ==
    LET inked == {i \in 1..Len(line) : line[i] \notin Whitespace}
    IN  \/ inked = {}
        \/ \E i \in inked : (\A k \in inked : i <= k) /\ line[i] \in {"y", "Y"}

\* C5 amended: the response is read without its surrounding whitespace; it
\* passes when what is left begins with y or Y or is empty, and fails
\* otherwise.
C5_FirstCharAfterTrim ==
    (QuesResolved /\ response # None) =>
        out.ques = (IF PassingResponse(response[1]) THEN GradeNew(Scale) ELSE GradeNew(0))

\* C5 witness: " y" passes, though its first character is a space.
C5_Witness ==
    /\ fgpc = "join"
    /\ response = Some(<<" ", "y", "\n">>)
    /\ out.ques = GradeNew(Scale)

\* Number of criteria a completed run satisfied, as the claim lists them
Satisfied ==
    (IF HasRecognizedLink(contents) THEN 1 ELSE 0)
    + (IF \A i \in 1..Len(lints) : lints[i] # "Punctuation" THEN 1 ELSE 0)
    + (IF \A i \in 1..Len(lints) : lints[i] # "Spelling" THEN 1 ELSE 0)
    + (IF \A i \in 1..Len(lints) : lints[i] # "Capitalization" THEN 1 ELSE 0)
    + (IF PassingResponse(response[1]) THEN 1 ELSE 0)

\* C3 as claimed: a completed run's final score is 20% for each satisfied
\* criterion (recognized link present, no punctuation, spelling or
\* capitalization finding, passing response).
C3_Original == Reported => report[7].num = 20 * Satisfied * Scale

\* The run of C9: a recognized link, the response "y", and no classified
\* finding in `lints`, as in every run whose linter returned no finding
CleanRun ==
    /\ Reported
    /\ lints = <<>>
    /\ HasRecognizedLink(contents)
    /\ response = Some(<<"y", "\n">>)

AllPassed == \A f \in DOMAIN out : out[f] = GradeNew(Scale)

\* C9 as claimed: every criterion line of that run's report shows 100%.
C9_Original ==
    CleanRun =>
        /\ AllPassed
        /\ \A i \in 1..5 : report[i].num = 100 * Scale
        /\ report[7] = Line(100 * Scale, "%(100%): Final score")

\* C9 amended: in that run all five Grades are 1.0, every criterion line of
\* the report shows 20%(20%) and the final line 100%(100%): Final score.
C9_CleanRunReport ==
    CleanRun =>
        /\ AllPassed
        /\ \A i \in 1..5 :
             report[i] = Line(20 * Scale, CriterionLines[i].text)
        /\ report[6] = Separator
        /\ report[7] = Line(100 * Scale, "%(100%): Final score")
        /\ Len(report) = 7

\* C9 witness: that run with "check my video at youtu.be/abc", printed.
C9_Witness ==
    /\ CleanRun
    /\ fgpc = "done"
    /\ contents = TextYoutuBe
    /\ report[1].num = 20 * Scale

\* ------------------------------------------------------------------ C11
JoinReturned == fgpc \in {"copy", "output", "print", "done"}

Copied == fgpc \in {"output", "print", "done"}

\* C11: whenever handle.join() has returned, the spawned thread's three
\* Grades are resolved and its result holds their values; and once the
\* result is copied, the Rubric's punctuation, spelling and capitalization
\* Grades are the ones the spawned thread resolved.
C11_JoinedGradesResolved ==
    /\ JoinReturned =>
         /\ punc.val # None /\ spel.val # None /\ caps.val # None
         /\ psc = Some(<<punc.val[1], spel.val[1], caps.val[1]>>)
    /\ Copied => (out.punc = punc /\ out.spel = spel /\ out.caps = caps)

\* C11 witness: a spelling finding only; after the copy the Rubric holds
\* spelling 0.0 and the other two 1.0, as the thread resolved them.
C11_Witness ==
    /\ fgpc = "output"
    /\ lints = <<"Spelling">>
    /\ spel = GradeNew(0) /\ punc = GradeNew(Scale) /\ caps = GradeNew(Scale)
    /\ out.spel = GradeNew(0) /\ out.punc = GradeNew(Scale) /\ out.caps = GradeNew(Scale)

\* ------------------------------------------------------------------ C12
\* A step of the calling thread before it reaches handle.join()
FgBeforeJoin == FgLink \/ FgPrompt \/ FgRead \/ FgReadFail \/ FgQues

ThreadRunning == bgpc \in {"lint", "loop", "return"}

\* C12: wherever the spawned thread is, the calling thread at the link
\* check, the prompt, the read or the resolution of questions-answered has
\* a step to take; with the thread still running it has none only at
\* handle.join(), and by then link and questions-answered are resolved.
C12_NoWaitBeforeJoin ==
    /\ fgpc \in {"link", "prompt", "read", "ques"} => ENABLED FgBeforeJoin
    /\ (ThreadRunning /\ ~ENABLED FgNext /\ fgpc # "panicked") =>
         /\ fgpc = "join"
         /\ out.link.val # None
         /\ out.ques.val # None

\* C12 witness: the calling thread is blocked at the join with link and
\* questions-answered resolved while the thread has not left the linter.
C12_Witness ==
    /\ fgpc = "join"
    /\ bgpc = "lint"
    /\ out.link.val # None
    /\ out.ques.val # None
    /\ ~ENABLED FgNext

\* ------------------------------------------------------------------ C13
\* What main has printed before any report: the text and the question
PromptOnly == Len(printed) <= 2

\* C13: a run whose read fails, or whose join finds the thread panicked,
\* ends panicked with no report line printed and no further step; a run
\* goes past the read only with a response read, and past the join only
\* with the thread finished.
C13_FailuresAreFatal ==
    /\ fgpc = "panicked" =>
         /\ (response = None \/ bgpc = "panicked")
         /\ report = <<>> /\ score = None /\ PromptOnly
         /\ ~ENABLED Next
    /\ fgpc \in {"ques", "join", "copy", "output", "print", "done"} => response # None
    /\ JoinReturned => bgpc = "finished"
    /\ (fgpc = "read" \/ (fgpc = "join" /\ bgpc = "panicked")) => ENABLED (FgReadFail \/ FgJoinFail)

\* C13 witness: the thread panicked, the join found it so, and the run
\* ended with the prompt printed and no report.
C13_Witness ==
    /\ fgpc = "panicked"
    /\ bgpc = "panicked"
    /\ response # None
    /\ report = <<>>
    /\ Len(printed) = 2

\* ------------------------------------------------------------------ C14
RunEnded == fgpc \in {"done", "panicked"}

\* C14 as stated: no run has ended, with a report or with a failure, while
\* the spawned thread is still running, and a report exists only when the
\* response has been read and the join has returned.
C14_Original ==
    /\ RunEnded => ~ThreadRunning
    /\ report # <<>> => (response # None /\ JoinReturned)

\* ------------------------------------------------------------------ C15
Criteria == {"link", "caps", "punc", "spel", "ques"}

\* What the calling thread owns: the Rubric and everything main handles
FgOwned == <<out, rstart, score, report, contents, fgpc, input, response, printed>>

\* What the spawned thread owns: its three Grades and its result
BgOwned == <<punc, spel, caps, psc, lints, li, calls>>

\* C15: until handle.join() has returned the Rubric's punctuation, spelling
\* and capitalization Grades stay unset; a step of the spawned thread
\* changes nothing of the Rubric or of the calling thread; and the thread's
\* three Grades and its result change only in a step of the thread.
C15_Ownership ==
    /\ [](~Copied => (out.punc = GradeEmpty /\ out.spel = GradeEmpty
                                              /\ out.caps = GradeEmpty))
    /\ [][BgNext => UNCHANGED FgOwned]_vars
    /\ [][(BgOwned' # BgOwned) => BgNext]_vars

\* C15 witness: the thread has resolved its Grades and returned, the
\* calling thread has resolved link and questions-answered and is at the
\* join, and the Rubric's other three Grades are still unset.
C15_Witness ==
    /\ fgpc = "join"
    /\ bgpc = "finished"
    /\ punc.val # None /\ spel.val # None /\ caps.val # None
    /\ out.link.val # None /\ out.ques.val # None
    /\ out.punc = GradeEmpty /\ out.spel = GradeEmpty /\ out.caps = GradeEmpty

\* ------------------------------------------------------------------ C16
AllResolved == \A c \in Criteria : out[c].val # None

\* C16: the Rubric starts with its five Grades unset, a resolved Grade of
\* the Rubric never changes again, and from the moment output() is called
\* all five are resolved, so the report reads no unset Grade.
C16_ResolvedOnce ==
    /\ [](fgpc \in {"spawn", "link"} => out = RubricNew)
    /\ [][\A c \in Criteria : out[c].val # None => out'[c] = out[c]]_vars
    /\ []((fgpc = "output" \/ report # <<>>) => AllResolved)

\* C16 witness: the report has been rendered from five resolved Grades.
C16_Witness ==
    /\ fgpc = "print"
    /\ report # <<>>
    /\ AllResolved
    /\ out.link = GradeNew(Scale)
    /\ out.caps = GradeNew(0)

\* ------------------------------------------------------------------ C17
\* The three Grades of the closure and the category each one follows
ThreadGrades == {"punc", "spel", "caps"}

CategoryOfGrade(name) ==
    IF name = "punc" THEN "Punctuation"
    ELSE IF name = "spel" THEN "Spelling"
    ELSE "Capitalization"

\* Positions in the call history of one method on one Grade
CallsOn(name, method) == {i \in DOMAIN calls : calls[i] = <<name, method>>}

\* Findings of a category among those the loop has consumed
Consumed(cat) == {k \in 1..(li - 1) : lints[k] = cat}

LoopOver == bgpc \in {"return", "finished"}

\* C17: each Grade of the closure has received one fail() per consumed
\* finding of its category; none has received a pass() while the loop
\* runs; and once the loop is over the whole sequence has been consumed and
\* each has received exactly one pass(), later than every fail() on it.
C17_FailsThenOnePass ==
    \A name \in ThreadGrades :
        /\ Cardinality(CallsOn(name, "fail")) = Cardinality(Consumed(CategoryOfGrade(name)))
        /\ bgpc = "loop" => CallsOn(name, "pass") = {}
        /\ LoopOver =>
             /\ li = Len(lints) + 1
             /\ Cardinality(CallsOn(name, "pass")) = 1
             /\ \A i \in CallsOn(name, "fail") : \A j \in CallsOn(name, "pass") : i < j

\* C17 witness: two spelling findings around a punctuation finding; the
\* spelling Grade got two fail() calls and then its one pass().
C17_Witness ==
    /\ bgpc = "finished"
    /\ lints = <<"Spelling", "Punctuation", "Spelling">>
    /\ calls = << <<"spel", "fail">>, <<"punc", "fail">>, <<"spel", "fail">>,
                  <<"punc", "pass">>, <<"spel", "pass">>, <<"caps", "pass">> >>
    /\ psc = Some(<<0, 0, Scale>>)

\* ------------------------------------------------------------------ C18
InRange(gr) == gr.val = None \/ (0 <= gr.val[1] /\ gr.val[1] <= Scale)

\* C18 as stated: a call of output() leaves each of the five Grades of the
\* Rubric, whatever they hold, as it was before the call.
C18_Original == [][FgOutput => out' = out]_vars

\* C18: a call of output() leaves a Grade that is unset unset and a Grade
\* holding a value in [0.0, 1.0] unchanged, and leaves a Grade holding a
\* value outside [0.0, 1.0] holding that value clamped into [0.0, 1.0].
C18_OutputClampsInPlace ==
    [][FgOutput =>
         \A c \in Criteria :
             /\ InRange(out[c]) => out'[c] = out[c]
             /\ out[c].val = None <=> out'[c].val = None
             /\ out[c].val # None =>
                    out'[c].val = Some(Clamp(out[c].val[1], 0, Scale))]_vars

\* C18 witness: output() has run on a Rubric with link above 1.0, spelling
\* in range and capitalization unset; link is now 1.0, the others as before.
C18_Witness ==
    /\ fgpc = "print"
    /\ report # <<>>
    /\ rstart.link = GradeNew(Scale + 1) /\ out.link = GradeNew(Scale)
    /\ rstart.spel = GradeNew(1) /\ out.spel = GradeNew(1)
    /\ rstart.caps = GradeEmpty /\ out.caps = GradeEmpty

\* ------------------------------------------------------------------ C19
\* The linter has returned its findings and read_line has returned Ok
LintedAndRead == response # None /\ bgpc \in {"loop", "return", "finished"}

\* What main has printed at the end of a run: the prompt, then one report
OneReportPrinted ==
    /\ fgpc = "done"
    /\ bgpc = "finished"
    /\ Len(report) = 7
    /\ printed = <<contents, "Complete sentences and all questions answered?">> \o report

\* C19: with both threads scheduled, once the linter has returned its
\* findings and the response has been read, the run reaches the end of
\* main with the thread joined and the prompt followed by one report
\* printed; until then some step is always possible, and after it none is.
C19_EventuallyOneReport ==
    /\ LintedAndRead ~> OneReportPrinted
    /\ []((LintedAndRead /\ fgpc # "done") => ENABLED Next)
    /\ [](fgpc = "done" => (OneReportPrinted /\ ~ENABLED Next))

\* C19 witness: a run with a finding and the response "no" has ended with
\* its one report printed.
C19_Witness ==
    /\ OneReportPrinted
    /\ response # None
    /\ lints # <<>>
    /\ out.ques = GradeNew(0)
    /\ Len(printed) = 9

====
